---- MODULE Spec2Model ----
\* TFTP client (final_project.py): one GET or one PUT session over UDP, modelled
\* from one blocking receive to the next, against (a) an arbitrary network and
\* (b) a conformant TFTP server.
EXTENDS Integers, Sequences, FiniteSets, TLC

VARIABLES
    operation,              \* args.operation: "get" | "put"
    filename,               \* args.filename
    pc,                     \* "start" | "get_recv" | "put_recv" | "exit"
    exit_status,            \* -1 while running, 0 after sys.exit(0), 1 after an unhandled exception
    exception,              \* "none" | "NameError" | "struct.error"
    file,                   \* the name `file`: "unbound" | "open" | "closed"
    close_failed,           \* TRUE when file.close() was evaluated with `file` unbound
    disk_exists,            \* whether the local path `filename` exists
    disk,                   \* bytes of the local path `filename`
    read_pos,               \* read offset of the PUT source handle
    expected_block_number,
    block_number,
    file_block_bound,       \* whether the name `file_block` is bound
    file_block,
    data_packet,
    out,                    \* datagrams sent during the last step, in order: [pkt, to]
    last_sent,              \* <<>> or <<the last datagram sent before the last step>>
    ever_sent,              \* whether any datagram has been sent at all
    last_recv,              \* <<>> (start, timeout) or <<[pkt, from]>> received in the last step
    printed,                \* lines printed during the last step
    first_reply,            \* <<>> or <<sender of the first DATA (GET) / first datagram (PUT) received>>
    accepted,               \* block numbers of the DATA blocks accepted by GET, in order
    acked,                  \* block numbers of the ACKs sent by GET, in order
    orig,                   \* the original bytes of the file being transferred
    net,                    \* datagrams in flight to the client: [pkt, from]
    toServer,               \* datagrams in flight to the server: [pkt, to]
    srv_file,               \* the server's copy of the file
    srv_expected,           \* next DATA block the server's write session expects (0: no session)
    srv_done                \* the server's write session has stored the final block

cvars == <<operation, filename, pc, exit_status, exception, file, close_failed,
           disk_exists, disk, read_pos, expected_block_number, block_number,
           file_block_bound, file_block, data_packet, out, last_sent, ever_sent,
           last_recv, printed, first_reply, accepted, acked>>
evars == <<orig, net, toServer, srv_file, srv_expected, srv_done>>
vars == <<cvars, evars>>

-----------------------------------------------------------------------------
\* Program constants

DEFAULT_PORT == 69
BLOCK_SIZE == 512
RecvSizeGet == 516
RecvSizePut == 4
OPCODE == [RRQ |-> 1, WRQ |-> 2, DATA |-> 3, ACK |-> 4, ERROR |-> 5]
DEFAULT_TRANSFER_MODE == <<111, 99, 116, 101, 116>>       \* bytes('octet', 'utf-8')

ERROR_CODE ==
    [c \in 0..7 |->
        CASE c = 0 -> "Not defined, see error message (if any)."
          [] c = 1 -> "File not found."
          [] c = 2 -> "Access violation."
          [] c = 3 -> "Disk full or allocation exceeded."
          [] c = 4 -> "Illegal TFTP operation."
          [] c = 5 -> "Unknown transfer ID."
          [] c = 6 -> "File already exists."
          [] c = 7 -> "No such user."]

\* ERROR_CODE.get(error_code, 'Unknown error')
ErrorMessage(error_code) ==
    IF error_code \in DOMAIN ERROR_CODE THEN ERROR_CODE[error_code] ELSE "Unknown error"

\* server_address = (args.host, args.port)
server_address == <<"host", DEFAULT_PORT>>

-----------------------------------------------------------------------------
\* Bounds of the model

MaxBlockNumber == 3      \* highest block number a datagram carries / a PUT reaches
MaxFullBlocks == 2       \* files hold at most this many full 512-byte blocks
WireSpan == 8            \* block numbers this close to 1 and to 32768 are packed

-----------------------------------------------------------------------------
\* Bytes and the struct / int.from_bytes conversions

Min(a, b) == IF a < b THEN a ELSE b

\* Python slice s[i:j] of a byte string
Slice(s, i, j) == SubSeq(s, i + 1, Min(j, Len(s)))

\* Python slice s[i:]
SliceFrom(s, i) == SubSeq(s, i + 1, Len(s))

RECURSIVE int_from_bytes(_)
\* int.from_bytes(s, 'big'): unsigned, 0 for the empty string
int_from_bytes(s) ==
    IF s = <<>> THEN 0
    ELSE int_from_bytes(SubSeq(s, 1, Len(s) - 1)) * 256 + s[Len(s)]

\* struct format 'h' is a SIGNED 16-bit field: pack raises struct.error outside it
PackHRange == -32768..32767

\* the two bytes pack('>h', n) produces for n in PackHRange (two's complement)
pack_h(n) ==
    LET u == IF n < 0 THEN n + 65536 ELSE n
    IN  <<u \div 256, u % 256>>

\* bytes(filename, 'utf-8') for the file names of the model
Utf8(name) ==
    CASE name = "a"  -> <<97>>
      [] name = "ab" -> <<97, 98>>

\* send_request's message: pack('>h{n}sB{m}sB', opcode, filename, 0, mode, 0)
request_message(opcode, name, mode) ==
    pack_h(opcode) \o Utf8(name) \o <<0>> \o mode \o <<0>>

\* send_ack's message: pack('>hh', OPCODE['ACK'], block_number)
ack_message(bn) == pack_h(OPCODE.ACK) \o pack_h(bn)

\* pack('>hh', OPCODE['DATA'], block_number) + file_block
data_message(bn, chunk) == pack_h(OPCODE.DATA) \o pack_h(bn) \o chunk

Dgram(p, a) == [pkt |-> p, to |-> a]

-----------------------------------------------------------------------------
\* The client's state as one record, and the primitive effects of its statements

Cur ==
    [operation |-> operation, filename |-> filename, pc |-> pc,
     exit_status |-> exit_status, exception |-> exception, file |-> file,
     close_failed |-> close_failed, disk_exists |-> disk_exists, disk |-> disk,
     read_pos |-> read_pos, expected_block_number |-> expected_block_number,
     block_number |-> block_number, file_block_bound |-> file_block_bound,
     file_block |-> file_block, data_packet |-> data_packet, out |-> out,
     last_sent |-> last_sent, ever_sent |-> ever_sent, last_recv |-> last_recv,
     printed |-> printed, first_reply |-> first_reply, accepted |-> accepted,
     acked |-> acked]

Apply(s) ==
    /\ operation' = s.operation
    /\ filename' = s.filename
    /\ pc' = s.pc
    /\ exit_status' = s.exit_status
    /\ exception' = s.exception
    /\ file' = s.file
    /\ close_failed' = s.close_failed
    /\ disk_exists' = s.disk_exists
    /\ disk' = s.disk
    /\ read_pos' = s.read_pos
    /\ expected_block_number' = s.expected_block_number
    /\ block_number' = s.block_number
    /\ file_block_bound' = s.file_block_bound
    /\ file_block' = s.file_block
    /\ data_packet' = s.data_packet
    /\ out' = s.out
    /\ last_sent' = s.last_sent
    /\ ever_sent' = s.ever_sent
    /\ last_recv' = s.last_recv
    /\ printed' = s.printed
    /\ first_reply' = s.first_reply
    /\ accepted' = s.accepted
    /\ acked' = s.acked

\* A step begins: what the previous step sent becomes history, and the step's
\* own record of sends, prints and the received datagram starts afresh.
Begin(s, rcv) ==
    [s EXCEPT !.last_sent = IF s.out # <<>> THEN <<s.out[Len(s.out)]>> ELSE @,
              !.out = <<>>,
              !.printed = <<>>,
              !.last_recv = rcv]

\* history: the sender address of the first reply of the session
NoteReply(s, from) == [s EXCEPT !.first_reply = IF @ = <<>> THEN <<from>> ELSE @]

\* sock.sendto(p, a)
Send(s, p, a) == [s EXCEPT !.out = Append(@, Dgram(p, a)), !.ever_sent = TRUE]

\* print(line)
Say(s, line) == [s EXCEPT !.printed = Append(@, line)]

\* file.close() on a bound handle (closing twice is allowed)
Close(s) == [s EXCEPT !.file = "closed"]

\* an exception no handler catches: traceback, interpreter exit status 1
Crash(s, exc) == [s EXCEPT !.pc = "exit", !.exit_status = 1, !.exception = exc]

\* sys.exit(0)
Exit0(s) == [s EXCEPT !.pc = "exit", !.exit_status = 0]

-----------------------------------------------------------------------------
\* GET

\* send_request(OPCODE['RRQ'], ...); file = open(filename, 'wb'); expected_block_number = 1
GetStart(s) ==
    LET s1 == Send(s, request_message(OPCODE.RRQ, s.filename, DEFAULT_TRANSFER_MODE),
                   server_address)
    IN  [s1 EXCEPT !.file = "open", !.disk_exists = TRUE, !.disk = <<>>,
                   !.expected_block_number = 1, !.pc = "get_recv"]

\* send_ack(block_number, server): pack('>hh', 4, block_number) raises struct.error
\* outside the signed 16-bit range, before anything is sent
send_ack(s, bn, server) ==
    IF bn \notin PackHRange
    THEN Crash(s, "struct.error")
    ELSE Send(s, ack_message(bn), server)

\* expected_block_number += 1 on a Python int: no width, no wrap
next_expected(e) == e + 1

\* mutant of GetAccept: the block is acknowledged and counted but not written
GetAcceptSkipWrite(s, data, from) ==
    LET bn == s.block_number
        s1 == send_ack(s, bn, from)
    IN  IF s1.exception = "struct.error"
        THEN s1
        ELSE [s1
                EXCEPT !.acked = Append(@, bn),
                       !.accepted = Append(@, bn),
                       !.file_block = SliceFrom(data, 4),
                       !.file_block_bound = TRUE,
                       !.expected_block_number = next_expected(@)]

\* the inner `if block_number == expected_block_number:` body
GetAccept(s, data, from) ==
    LET bn == s.block_number
        s1 == send_ack(s, bn, from)
    IN  IF s1.exception = "struct.error"
        THEN s1
        ELSE [s1
                EXCEPT !.acked = Append(@, bn),
                       !.accepted = Append(@, bn),
                       !.file_block = SliceFrom(data, 4),
                       !.file_block_bound = TRUE,
                       !.disk = @ \o SliceFrom(data, 4),
                       !.expected_block_number = next_expected(@)]

\* mutant of GetLengthTest: only an empty payload ends the transfer
GetLengthTestEmpty(s) ==
    IF s.pc = "exit" THEN s
    ELSE IF ~s.file_block_bound THEN Crash(s, "NameError")
    ELSE IF Len(s.file_block) = 0
         THEN Exit0(Close(Say(s, <<"File transfer completed.">>)))
    ELSE s

\* the `if len(file_block) < BLOCK_SIZE:` test that follows, whether or not the
\* block was accepted; then `break`, file.close(), sys.exit(0)
GetLengthTest(s) ==
    IF s.pc = "exit" THEN s
    ELSE IF ~s.file_block_bound THEN Crash(s, "NameError")
    ELSE IF Len(s.file_block) < BLOCK_SIZE
         THEN Exit0(Close(Say(s, <<"File transfer completed.">>)))
    ELSE s

\* mutant of GetData: `<=` for `==`, so a duplicate block is accepted again
GetDataDup(s, data, from) ==
    LET s1 == [NoteReply(s, from) EXCEPT !.block_number = int_from_bytes(Slice(data, 2, 4))]
        s2 == IF s1.block_number <= s1.expected_block_number
              THEN GetAccept(s1, data, from)
              ELSE s1
    IN  GetLengthTest(s2)

\* mutant of GetData: an unexpected block is acknowledged again
GetDataReAck(s, data, from) ==
    LET s1 == [NoteReply(s, from) EXCEPT !.block_number = int_from_bytes(Slice(data, 2, 4))]
        s2 == IF s1.block_number = s1.expected_block_number
              THEN GetAccept(s1, data, from)
              ELSE Send(s1, ack_message(s1.block_number), from)
    IN  GetLengthTest(s2)

\* opcode == OPCODE['DATA']
GetData(s, data, from) ==
    LET s1 == [NoteReply(s, from) EXCEPT !.block_number = int_from_bytes(Slice(data, 2, 4))]
        s2 == IF s1.block_number = s1.expected_block_number
              THEN GetAccept(s1, data, from)
              ELSE s1
    IN  GetLengthTest(s2)

\* mutant of GetError: the partial file is not removed
GetErrorKeep(s, data) ==
    LET error_code == int_from_bytes(Slice(data, 2, 4))
    IN  Exit0(Close(Close(Say(s, <<"Error: ", ErrorMessage(error_code)>>))))

\* opcode == OPCODE['ERROR']
GetError(s, data) ==
    LET error_code == int_from_bytes(Slice(data, 2, 4))
        s1 == Close(Say(s, <<"Error: ", ErrorMessage(error_code)>>))
        s2 == [s1 EXCEPT !.disk_exists = FALSE, !.disk = <<>>]     \* os.remove(filename)
    IN  Exit0(Close(s2))

\* one pass of the GET loop that receives datagram d from address `from`
GetRecv(s, d, from) ==
    LET data == Slice(d, 0, RecvSizeGet)
        opcode == int_from_bytes(Slice(data, 0, 2))
        s0 == Begin(s, <<[pkt |-> d, from |-> from]>>)
    IN  IF opcode = OPCODE.DATA THEN GetData(s0, data, from)
        ELSE IF opcode = OPCODE.ERROR THEN GetError(s0, data)
        ELSE s0

\* mutant of GetTimeout: the last outbound datagram is sent again
GetTimeoutResendLast(s) ==
    LET s0 == Say(Begin(s, <<>>), <<"Timeout occurred. Retrying...">>)
    IN  Send(s0, s0.last_sent[1].pkt, s0.last_sent[1].to)

\* mutant of GetTimeout: the session gives up at the first timeout
GetTimeoutGiveUp(s) ==
    Exit0(Close(Say(Begin(s, <<>>), <<"Timeout occurred. Retrying...">>)))

\* except socket.timeout (GET)
GetTimeout(s) ==
    Send(Say(Begin(s, <<>>), <<"Timeout occurred. Retrying...">>),
         request_message(OPCODE.RRQ, s.filename, DEFAULT_TRANSFER_MODE), server_address)

-----------------------------------------------------------------------------
\* PUT

\* finally: file.close(), when the exception (if any) is not handled
PutFinally(s) ==
    IF s.file = "unbound"
    THEN Crash([s EXCEPT !.close_failed = TRUE], "NameError")
    ELSE Close(s)

\* the head of the while loop: read, count, pack, send; then on to recvfrom
PutNextBlock(s) ==
    LET chunk == Slice(s.disk, s.read_pos, s.read_pos + BLOCK_SIZE)
        s1 == [s EXCEPT !.file_block = chunk, !.file_block_bound = TRUE,
                        !.read_pos = @ + Len(chunk), !.block_number = @ + 1]
    IN  IF s1.block_number \notin PackHRange
        THEN Crash(PutFinally(s1), "struct.error")
        ELSE [Send(s1, data_message(s1.block_number, chunk), server_address)
                EXCEPT !.data_packet = data_message(s1.block_number, chunk),
                       !.pc = "put_recv"]

\* send_request(OPCODE['WRQ'], ...); file = open(filename, 'rb'); block_number = 0
PutStart(s) ==
    LET s1 == Send(s, request_message(OPCODE.WRQ, s.filename, DEFAULT_TRANSFER_MODE),
                   server_address)
    IN  IF ~s1.disk_exists
        THEN LET s2 == Say(s1, <<"Error: File '", s1.filename, "' not found.">>)
                 s3 == PutFinally(s2)
             IN  IF s3.pc = "exit" THEN s3 ELSE Exit0(s3)
        ELSE PutNextBlock([s1 EXCEPT !.file = "open", !.read_pos = 0, !.block_number = 0])

\* mutant of PutRecv: a matching ACK ends the upload whatever the chunk length
PutRecvAnyAck(s, d, from) ==
    LET ack == Slice(d, 0, RecvSizePut)
        ack_opcode == int_from_bytes(Slice(ack, 0, 2))
        ack_block_number == int_from_bytes(Slice(ack, 2, 4))
        s0 == NoteReply(Begin(s, <<[pkt |-> d, from |-> from]>>), from)
    IN  IF /\ ack_opcode = OPCODE.ACK
           /\ ack_block_number = s0.block_number
        THEN Exit0(PutFinally(Say(s0, <<"File upload completed.">>)))
        ELSE PutNextBlock(s0)

\* mutant of PutRecv: a non-matching ACK makes the client send the same block again
PutRecvResend(s, d, from) ==
    LET ack == Slice(d, 0, RecvSizePut)
        ack_opcode == int_from_bytes(Slice(ack, 0, 2))
        ack_block_number == int_from_bytes(Slice(ack, 2, 4))
        s0 == NoteReply(Begin(s, <<[pkt |-> d, from |-> from]>>), from)
    IN  IF /\ ack_opcode = OPCODE.ACK
           /\ ack_block_number = s0.block_number
           /\ Len(s0.file_block) < BLOCK_SIZE
        THEN Exit0(PutFinally(Say(s0, <<"File upload completed.">>)))
        ELSE IF ack_opcode = OPCODE.ACK /\ ack_block_number # s0.block_number
        THEN Send(s0, s0.data_packet, server_address)
        ELSE PutNextBlock(s0)

\* ack, _ = sock.recvfrom(4) and the test on it
PutRecv(s, d, from) ==
    LET ack == Slice(d, 0, RecvSizePut)
        ack_opcode == int_from_bytes(Slice(ack, 0, 2))
        ack_block_number == int_from_bytes(Slice(ack, 2, 4))
        s0 == NoteReply(Begin(s, <<[pkt |-> d, from |-> from]>>), from)
    IN  IF /\ ack_opcode = OPCODE.ACK
           /\ ack_block_number = s0.block_number
           /\ Len(s0.file_block) < BLOCK_SIZE
        THEN Exit0(PutFinally(Say(s0, <<"File upload completed.">>)))
        ELSE PutNextBlock(s0)

\* except socket.timeout (PUT): resend, then the loop goes round
PutTimeout(s) ==
    LET s0 == Say(Begin(s, <<>>), <<"Timeout occurred. Resending block...">>)
    IN  PutNextBlock(Send(s0, s0.data_packet, server_address))

-----------------------------------------------------------------------------
\* Inputs: file names, files, peer addresses and the datagrams a network can deliver

Filenames == {"a", "ab"}

\* a file of n bytes whose 512-byte blocks all differ
MkFile(n) == [i \in 1..n |-> (i + 3 * ((i - 1) \div BLOCK_SIZE)) % 251]

Files == {MkFile(k * BLOCK_SIZE + r) : k \in 0..MaxFullBlocks, r \in {0, 1}}

\* the server's transfer endpoints (ephemeral ports), distinct from server_address
Tid1 == <<"host", 50001>>
Tid2 == <<"host", 50002>>
Addrs == {Tid1, Tid2}

\* what a peer puts on the wire (unsigned 16-bit big-endian fields, RFC 1350)
WireU16(n) == <<(n \div 256) % 256, n % 256>>
WireData(bn, payload) == WireU16(OPCODE.DATA) \o WireU16(bn) \o payload
WireAck(bn) == WireU16(OPCODE.ACK) \o WireU16(bn)
WireError(code) == WireU16(OPCODE.ERROR) \o WireU16(code) \o <<0>>

\* payloads a DATA datagram numbered bn carries: empty, short, and a full block
FullPayload(bn) == [i \in 1..BLOCK_SIZE |-> (i + bn) % 251]
Payloads(bn) == {<<>>, <<65>>, FullPayload(bn)}
ErrorCodes == {0, 1, 7, 8}

Datagrams ==
    UNION {{WireData(b, p) : p \in Payloads(b)} : b \in 0..MaxBlockNumber}
    \cup {WireAck(b) : b \in 0..MaxBlockNumber}
    \cup {WireError(c) : c \in ErrorCodes}
    \cup {<<>>, <<0>>, <<0, 9, 0, 1>>}

-----------------------------------------------------------------------------
\* The client against an arbitrary network

InitClient(op, name, exists, content) ==
    /\ operation = op
    /\ filename = name
    /\ pc = "start"
    /\ exit_status = -1
    /\ exception = "none"
    /\ file = "unbound"
    /\ close_failed = FALSE
    /\ disk_exists = exists
    /\ disk = content
    /\ read_pos = 0
    /\ expected_block_number = 0
    /\ block_number = 0
    /\ file_block_bound = FALSE
    /\ file_block = <<>>
    /\ data_packet = <<>>
    /\ out = <<>>
    /\ last_sent = <<>>
    /\ ever_sent = FALSE
    /\ last_recv = <<>>
    /\ printed = <<>>
    /\ first_reply = <<>>
    /\ accepted = <<>>
    /\ acked = <<>>

InitEnv(original, served) ==
    /\ orig = original
    /\ net = {}
    /\ toServer = {}
    /\ srv_file = served
    /\ srv_expected = 0
    /\ srv_done = FALSE

Init ==
    \E op \in {"get", "put"}, name \in Filenames :
        \/ /\ InitClient(op, name, FALSE, <<>>)
           /\ InitEnv(<<>>, <<>>)
        \/ \E f \in Files :
              /\ op = "put"
              /\ InitClient(op, name, TRUE, f)
              /\ InitEnv(f, <<>>)

StartGet ==
    /\ pc = "start" /\ operation = "get"
    /\ Apply(GetStart(Cur))
    /\ UNCHANGED evars

StartPut ==
    /\ pc = "start" /\ operation = "put"
    /\ Apply(PutStart(Cur))
    /\ UNCHANGED evars

RecvGet ==
    /\ pc = "get_recv"
    /\ \E d \in Datagrams, a \in Addrs : LET s == GetRecv(Cur, d, a) IN Apply(s)
    /\ UNCHANGED evars

TimeoutGet ==
    /\ pc = "get_recv"
    /\ Apply(GetTimeout(Cur))
    /\ UNCHANGED evars

RecvPut ==
    /\ pc = "put_recv"
    /\ \E d \in Datagrams, a \in Addrs :
          LET s == PutRecv(Cur, d, a)
          IN  s.block_number <= MaxBlockNumber /\ Apply(s)
    /\ UNCHANGED evars

TimeoutPut ==
    /\ pc = "put_recv"
    /\ PutTimeout(Cur).block_number <= MaxBlockNumber
    /\ Apply(PutTimeout(Cur))
    /\ UNCHANGED evars

Next == StartGet \/ StartPut \/ RecvGet \/ TimeoutGet \/ RecvPut \/ TimeoutPut

Spec == Init /\ [][Next]_vars

-----------------------------------------------------------------------------
\* A conformant TFTP server (RFC 1350): requests arrive at server_address, every
\* transfer runs from a transfer endpoint of its own, DATA n is answered by ACK n
\* and ACK n by DATA n+1.

\* number of DATA blocks file f takes: its full blocks and one final short block
NumBlocks(f) == Len(f) \div BLOCK_SIZE + 1

\* the payload of block n (1-based) of file f
Block(f, n) == Slice(f, (n - 1) * BLOCK_SIZE, n * BLOCK_SIZE)

Reply(p, a) == [pkt |-> p, from |-> a]

WireOpcode(p) == int_from_bytes(Slice(p, 0, 2))
WireBlock(p) == int_from_bytes(Slice(p, 2, 4))

\* the datagrams the client sent in the step just taken
Sends(s) == {s.out[i] : i \in 1..Len(s.out)}

\* RRQ at the listening port: a new transfer endpoint sends block 1
SrvRRQ ==
    \E m \in toServer, a \in Addrs :
        /\ WireOpcode(m.pkt) = OPCODE.RRQ /\ m.to = server_address
        /\ toServer' = toServer \ {m}
        /\ net' = net \cup {Reply(WireData(1, Block(srv_file, 1)), a)}
        /\ UNCHANGED <<cvars, orig, srv_file, srv_expected, srv_done>>

\* ACK n at a transfer endpoint: that endpoint sends block n+1, if there is one
SrvAck ==
    \E m \in toServer :
        /\ WireOpcode(m.pkt) = OPCODE.ACK /\ m.to \in Addrs
        /\ toServer' = toServer \ {m}
        /\ net' = IF WireBlock(m.pkt) < NumBlocks(srv_file)
                  THEN net \cup {Reply(WireData(WireBlock(m.pkt) + 1,
                                                Block(srv_file, WireBlock(m.pkt) + 1)), m.to)}
                  ELSE net
        /\ UNCHANGED <<cvars, orig, srv_file, srv_expected, srv_done>>

\* WRQ at the listening port: transfer endpoint Tid1 answers ACK 0
SrvWRQ ==
    \E m \in toServer :
        /\ WireOpcode(m.pkt) = OPCODE.WRQ /\ m.to = server_address
        /\ toServer' = toServer \ {m}
        /\ srv_expected' = 1
        /\ srv_file' = <<>>
        /\ srv_done' = FALSE
        /\ net' = net \cup {Reply(WireAck(0), Tid1)}
        /\ UNCHANGED <<cvars, orig>>

\* DATA n: the write session at Tid1 stores the block it expects and answers
\* ACK n (again for a duplicate); the listening port takes requests only and
\* discards a DATA datagram
SrvData ==
    \E m \in toServer :
        /\ WireOpcode(m.pkt) = OPCODE.DATA
        /\ toServer' = toServer \ {m}
        /\ LET n == WireBlock(m.pkt)
               payload == SliceFrom(m.pkt, 4)
               here == m.to = Tid1 /\ srv_expected > 0
               fresh == here /\ n = srv_expected /\ ~srv_done
           IN  /\ srv_file' = IF fresh THEN srv_file \o payload ELSE srv_file
               /\ srv_expected' = IF fresh THEN srv_expected + 1 ELSE srv_expected
               /\ srv_done' = IF fresh THEN Len(payload) < BLOCK_SIZE ELSE srv_done
               /\ net' = IF here /\ n >= 1 /\ n <= srv_expected /\ (fresh \/ n < srv_expected)
                         THEN net \cup {Reply(WireAck(n), Tid1)}
                         ELSE net
        /\ UNCHANGED <<cvars, orig>>

\* the client's steps with its datagrams carried to and from the server
SStartGet ==
    /\ pc = "start" /\ operation = "get"
    /\ Apply(GetStart(Cur))
    /\ toServer' = toServer \cup Sends(GetStart(Cur))
    /\ UNCHANGED <<orig, net, srv_file, srv_expected, srv_done>>

SStartPut ==
    /\ pc = "start" /\ operation = "put"
    /\ Apply(PutStart(Cur))
    /\ toServer' = toServer \cup Sends(PutStart(Cur))
    /\ UNCHANGED <<orig, net, srv_file, srv_expected, srv_done>>

\* a datagram in flight is delivered to the GET client
SRecvGet ==
    /\ pc = "get_recv"
    /\ \E m \in net :
          LET s == GetRecv(Cur, m.pkt, m.from)
          IN  /\ Apply(s)
              /\ net' = net \ {m}
              /\ toServer' = toServer \cup Sends(s)
    /\ UNCHANGED <<orig, srv_file, srv_expected, srv_done>>

\* the network delivers a copy and keeps the datagram in flight (duplication)
SRecvGetDup ==
    /\ pc = "get_recv"
    /\ \E m \in net :
          LET s == GetRecv(Cur, m.pkt, m.from)
          IN  /\ Apply(s)
              /\ toServer' = toServer \cup Sends(s)
    /\ UNCHANGED <<orig, net, srv_file, srv_expected, srv_done>>

\* the receive times out (the reply is late or lost)
STimeoutGet ==
    /\ pc = "get_recv"
    /\ Apply(GetTimeout(Cur))
    /\ toServer' = toServer \cup Sends(GetTimeout(Cur))
    /\ UNCHANGED <<orig, net, srv_file, srv_expected, srv_done>>

\* the network loses a datagram
SLose ==
    /\ \/ \E m \in net : net' = net \ {m} /\ UNCHANGED toServer
       \/ \E m \in toServer : toServer' = toServer \ {m} /\ UNCHANGED net
    /\ UNCHANGED <<cvars, orig, srv_file, srv_expected, srv_done>>

SRecvPut ==
    /\ pc = "put_recv"
    /\ \E m \in net :
          LET s == PutRecv(Cur, m.pkt, m.from)
          IN  /\ s.block_number <= MaxBlockNumber
              /\ Apply(s)
              /\ net' = net \ {m}
              /\ toServer' = toServer \cup Sends(s)
    /\ UNCHANGED <<orig, srv_file, srv_expected, srv_done>>

\* nothing is in flight in either direction
Quiescent == net = {} /\ toServer = {}

\* in a lossless exchange a receive times out only when no answer is on its way
STimeoutPut ==
    /\ pc = "put_recv" /\ Quiescent
    /\ PutTimeout(Cur).block_number <= MaxBlockNumber
    /\ Apply(PutTimeout(Cur))
    /\ toServer' = toServer \cup Sends(PutTimeout(Cur))
    /\ UNCHANGED <<orig, net, srv_file, srv_expected, srv_done>>

\* GET of a file the server holds, over a network that duplicates, delays and loses
InitGetServer ==
    \E name \in Filenames, f \in Files :
        /\ InitClient("get", name, FALSE, <<>>)
        /\ InitEnv(f, f)

NextGetServer ==
    SStartGet \/ SRecvGet \/ SRecvGetDup \/ STimeoutGet \/ SLose \/ SrvRRQ \/ SrvAck

SpecGetServer == InitGetServer /\ [][NextGetServer]_vars

\* The two halves of a round trip over a lossless network: a PUT of a local file
\* to the server, and a GET of a file the server holds.
InitRoundTrip ==
    \E name \in Filenames, f \in Files :
        \/ InitClient("put", name, TRUE, f) /\ InitEnv(f, <<>>)
        \/ InitClient("get", name, FALSE, <<>>) /\ InitEnv(f, f)

NextRoundTrip ==
    SStartPut \/ SStartGet \/ SRecvPut \/ STimeoutPut \/ SRecvGet
        \/ SrvWRQ \/ SrvData \/ SrvRRQ \/ SrvAck

SpecRoundTrip == InitRoundTrip /\ [][NextRoundTrip]_vars

-----------------------------------------------------------------------------
\* GET of a file the server holds with no datagram lost, duplicated or timed out;
\* the client and the server each keep taking their steps (weak fairness)
NextGetFair == SStartGet \/ SRecvGet \/ SrvRRQ \/ SrvAck

SpecGetFair ==
    /\ InitGetServer
    /\ [][NextGetFair]_vars
    /\ WF_vars(SStartGet \/ SRecvGet)
    /\ WF_vars(SrvRRQ \/ SrvAck)

\* The block-number arithmetic on its own: each statement that packs or counts a
\* block number, applied once to a number a transfer reaches.  A transfer counts
\* 1, 2, ... and ends with struct.error at 32768 at the latest (send_ack in GET,
\* pack in PUT), so the numbers are drawn from the start of that range and from
\* its end; the increment of line 90 follows a successful send_ack, hence is
\* applied up to 32767 only.  pc names the statement to apply; the number is
\* expected_block_number (GET) or block_number + 1 (PUT).

WireBlockNumbers == (1..WireSpan) \cup ((32767 - WireSpan)..32768)

InitWire ==
    \E n \in WireBlockNumbers, st \in {"wire_ack", "wire_next", "wire_get", "wire_data"} :
        /\ st = "wire_next" => n \in PackHRange
        /\ operation = IF st = "wire_data" THEN "put" ELSE "get"
        /\ filename = "a"
        /\ pc = st
        /\ exit_status = -1
        /\ exception = "none"
        /\ file = "open"
        /\ close_failed = FALSE
        /\ disk_exists = TRUE
        /\ disk = <<>>
        /\ read_pos = 0
        /\ expected_block_number = IF st = "wire_data" THEN 0 ELSE n
        /\ block_number = IF st = "wire_data" THEN n - 1 ELSE n
        /\ file_block_bound = FALSE
        /\ file_block = <<>>
        /\ data_packet = <<>>
        /\ out = <<>>
        /\ last_sent = <<>>
        /\ ever_sent = FALSE
        /\ last_recv = <<>>
        /\ printed = <<>>
        /\ first_reply = <<>>
        /\ accepted = <<>>
        /\ acked = <<>>
        /\ InitEnv(<<>>, <<>>)

\* send_ack(block_number, server_new_socket)
WireSendAck ==
    /\ pc = "wire_ack"
    /\ \E a \in Addrs :
          LET s == send_ack(Cur, block_number, a)
          IN  Apply([s EXCEPT !.pc = IF s.pc = "exit" THEN "exit" ELSE "wire_done"])
    /\ UNCHANGED evars

\* expected_block_number += 1
WireNextExpected ==
    /\ pc = "wire_next"
    /\ Apply([Cur EXCEPT !.expected_block_number = next_expected(@), !.pc = "wire_done"])
    /\ UNCHANGED evars

\* the whole DATA branch of the get loop on the final (short) block numbered
\* expected_block_number, as far as the 16-bit field can carry that number
WireGetData ==
    /\ pc = "wire_get"
    /\ \E a \in Addrs :
          LET d == WireData(expected_block_number, <<65>>)
              s == GetRecv(Cur, d, a)
          IN  Apply([s EXCEPT !.pc = IF s.pc = "exit" THEN "exit" ELSE "wire_done"])
    /\ UNCHANGED evars

\* file.read at end of file, block_number += 1, pack and send the DATA packet
WirePutNextBlock ==
    /\ pc = "wire_data"
    /\ LET s == PutNextBlock(Cur)
       IN  Apply([s EXCEPT !.pc = IF s.pc = "exit" THEN "exit" ELSE "wire_done"])
    /\ UNCHANGED evars

NextWire == WireSendAck \/ WireNextExpected \/ WireGetData \/ WirePutNextBlock

SpecWire == InitWire /\ [][NextWire]_vars

\* Terminal outcomes, read off what the program printed and how it exited

Completed ==
    /\ pc = "exit" /\ exit_status = 0
    /\ printed = IF operation = "get" THEN << <<"File transfer completed.">> >>
                 ELSE << <<"File upload completed.">> >>

Failed == pc = "exit" /\ ~Completed

\* the last step received a datagram whose opcode field reads ERROR
GotError == last_recv # <<>> /\ WireOpcode(last_recv[1].pkt) = OPCODE.ERROR

\* the most recent datagram the client has sent
LastOutbound == IF out # <<>> THEN out[Len(out)] ELSE last_sent[1]

-----------------------------------------------------------------------------
\* C1 (SpecGetServer). Block sequencing on GET: against a server holding a file of
\* k full blocks and a final short block, whatever the network duplicates, delays
\* or loses and whenever receives time out, the accepted DATA blocks are numbered
\* 1, 2, ... in order and never beyond k+1, every accepted block n is answered by
\* exactly one ACK n (sent to the block's sender), and the session is COMPLETED
\* only with all k+1 blocks accepted, the last one shorter than 512 bytes.
BlockSequencing ==
    /\ Len(accepted) <= NumBlocks(srv_file)
    /\ \A i \in 1..Len(accepted) : accepted[i] = i
    /\ acked = accepted
    /\ expected_block_number = (IF pc = "start" THEN 0 ELSE Len(accepted) + 1)
    /\ (last_recv # <<>> /\ out # <<>>) =>
          out = <<Dgram(WireAck(accepted[Len(accepted)]), last_recv[1].from)>>
    /\ Completed => /\ Len(accepted) = NumBlocks(srv_file)
                    /\ Len(file_block) < BLOCK_SIZE
    /\ pc = "exit" => Completed

\* a three-block file was fetched to completion although the block just received
\* had been delivered before (a duplicate was seen on the way is shown by the
\* copy still in flight)
BlockSequencingWitness ==
    /\ Completed
    /\ Len(accepted) = 3
    /\ \E m \in net : WireOpcode(m.pkt) = OPCODE.DATA /\ WireBlock(m.pkt) = 1

\* C2 (SpecRoundTrip). Round trip: over a lossless network and against the
\* conformant server, an exchange comes to rest (nothing in flight in either
\* direction) only when the transfer has COMPLETED with the file reproduced: after
\* the PUT the server holds exactly the original bytes, and after the GET of those
\* bytes the local file equals them. A transfer at rest short of that never
\* delivers the file, so PUT followed by GET cannot yield it.
RoundTrip ==
    (pc # "start" /\ Quiescent) =>
        /\ Completed
        /\ operation = "put" => (srv_done /\ srv_file = orig)
        /\ operation = "get" => (disk_exists /\ disk = orig)

\* the GET half alone does reproduce the server's bytes
RoundTripGetHalf ==
    (operation = "get" /\ pc # "start" /\ Quiescent) =>
        (Completed /\ disk_exists /\ disk = orig)

-----------------------------------------------------------------------------
\* a step of the client in which the receive timed out
TimeoutStep == pc \in {"get_recv", "put_recv"} /\ last_recv' = <<>>

\* C3 as stated (Spec). Timeout retransmission: after a receive timed out, in GET
\* or PUT, the next packet sent is byte-for-byte the most recent outbound packet
\* (request, DATA block or ACK).
TimeoutResendsLastOutbound ==
    [][TimeoutStep => (out' # <<>> /\ out'[1].pkt = LastOutbound.pkt)]_vars

\* C3 as amended (Spec). After a receive timed out the next packet sent is: in a
\* PUT, byte-for-byte the DATA packet sent last, to the same address; in a GET,
\* byte-for-byte the Read Request the session began with, to the server address
\* (so it repeats the most recent outbound packet unless that was an ACK).
TimeoutRetransmission ==
    [][TimeoutStep =>
        /\ out' # <<>>
        /\ operation = "put" => out'[1] = LastOutbound
        /\ operation = "get" =>
              out' = <<Dgram(<<0, 1>> \o Utf8(filename) \o <<0>>
                               \o DEFAULT_TRANSFER_MODE \o <<0>>, server_address)>>]_vars

\* a GET timed out after block 1 had been acknowledged
TimeoutRetransmissionWitness ==
    /\ operation = "get" /\ pc = "get_recv"
    /\ acked # <<>>
    /\ last_recv = <<>>
    /\ printed = << <<"Timeout occurred. Retrying...">> >>

-----------------------------------------------------------------------------
\* C4 (Spec). Error termination on GET: once a GET has received an ERROR packet,
\* before or after blocks were accepted, the session is over and FAILED with exit
\* status 0, the line printed is "Error: " and the message of the code (code 1:
\* "File not found.", a code outside 0..7: "Unknown error"), the step sent no
\* packet, the handle is closed and the destination file is gone from disk.
ErrorTerminationGet ==
    (operation = "get" /\ GotError) =>
        LET code == WireBlock(last_recv[1].pkt)
        IN  /\ Failed /\ exit_status = 0 /\ exception = "none"
            /\ Len(printed) = 1 /\ Len(printed[1]) = 2 /\ printed[1][1] = "Error: "
            /\ code = 0 => printed[1][2] = "Not defined, see error message (if any)."
            /\ code = 1 => printed[1][2] = "File not found."
            /\ code = 7 => printed[1][2] = "No such user."
            /\ code \notin 0..7 => printed[1][2] = "Unknown error"
            /\ out = <<>>
            /\ file = "closed"
            /\ ~disk_exists /\ disk = <<>>

\* ERROR code 1 arrived after two blocks had been accepted and written
ErrorTerminationGetWitness ==
    /\ operation = "get" /\ GotError
    /\ WireBlock(last_recv[1].pkt) = 1
    /\ Len(accepted) = 2

-----------------------------------------------------------------------------
\* C5 (Spec). Peer address learning on GET: once the first DATA reply has been
\* received, every packet the client sends (ACKs and timeout retransmissions) is
\* addressed to the sender of that first reply.
PeerAddressGet ==
    (operation = "get" /\ first_reply # <<>>) =>
        \A i \in 1..Len(out) : out[i].to = first_reply[1]

-----------------------------------------------------------------------------
\* C6 (Spec). PUT without a source file: when the local file of a PUT does not
\* exist, the client reports file-not-found and has sent no datagram at all.
PutMissingSendsNothing ==
    (operation = "put" /\ ~disk_exists) =>
        /\ ~ever_sent
        /\ pc = "exit" => printed = << <<"Error: File '", filename, "' not found.">> >>

-----------------------------------------------------------------------------
\* C7 (Spec). An ERROR packet is terminal in every session, PUT as well as GET:
\* after receiving it the session is FAILED and the step has sent nothing.
ErrorIsTerminal == GotError => (Failed /\ out = <<>>)

-----------------------------------------------------------------------------
\* C8 (Spec). The file handle is closed on every exit path: when a session has
\* ended COMPLETED, FAILED by an ERROR packet, or for a missing PUT source file,
\* no handle is left open and no close was attempted on a handle never opened.
HandleClosedOnExit ==
    (pc = "exit" /\ (Completed \/ GotError \/ (operation = "put" /\ ~disk_exists))) =>
        (file # "open" /\ ~close_failed)

-----------------------------------------------------------------------------
\* C9 (Spec). Every terminal path ends with exit status 0 after a printed
\* message, never by an unhandled exception.
ExitStatusZero ==
    pc = "exit" => (exit_status = 0 /\ exception = "none" /\ printed # <<>>)

-----------------------------------------------------------------------------
\* C10 (Spec). PUT timeout keeps the block: when the wait for the ACK of DATA
\* block n times out, the client sends DATA block n again, unchanged, and nothing
\* else: block number and read position stay, and it waits for a datagram again.
PutTimeoutKeepsBlock ==
    [][(pc = "put_recv" /\ last_recv' = <<>>) =>
        /\ out' = <<Dgram(data_packet, server_address)>>
        /\ block_number' = block_number
        /\ read_pos' = read_pos
        /\ data_packet' = data_packet
        /\ pc' = "put_recv"]_vars


-----------------------------------------------------------------------------
\* the step just taken received a DATA datagram / the block number it carries
GotData == last_recv # <<>> /\ WireOpcode(last_recv[1].pkt) = OPCODE.DATA
GotBlock == WireBlock(last_recv[1].pkt)

\* C11 (Spec). GET ignores unexpected blocks: a step that receives a DATA packet
\* whose block number differs from expected_block_number sends no ACK (nothing at
\* all), leaves the local file as it was and leaves expected_block_number unchanged.
GetIgnoresUnexpected ==
    [][(pc = "get_recv" /\ GotData' /\ GotBlock' # expected_block_number) =>
        /\ out' = <<>>
        /\ disk' = disk /\ disk_exists' = disk_exists
        /\ expected_block_number' = expected_block_number
        /\ acked' = acked /\ accepted' = accepted]_vars

\* block 1 was accepted and then a block beyond the expected one arrived
GetIgnoresUnexpectedWitness ==
    /\ operation = "get" /\ pc = "get_recv"
    /\ accepted # <<>>
    /\ GotData /\ GotBlock > expected_block_number
    /\ out = <<>>

-----------------------------------------------------------------------------
\* C12 (Spec). GET timeout behaviour: a receive timeout during a GET sends exactly
\* the original Read Request (same file name and mode) to the original server
\* address, leaves expected_block_number and the local file unchanged and stays in
\* the receive loop; as this holds of every timeout, no run of consecutive
\* timeouts ends the session.
GetTimeoutBehaviour ==
    [][(pc = "get_recv" /\ last_recv' = <<>>) =>
        /\ out' = <<Dgram(WireU16(OPCODE.RRQ) \o Utf8(filename) \o <<0>>
                            \o DEFAULT_TRANSFER_MODE \o <<0>>, <<"host", DEFAULT_PORT>>)>>
        /\ expected_block_number' = expected_block_number
        /\ disk' = disk /\ disk_exists' = disk_exists /\ file' = file
        /\ accepted' = accepted
        /\ pc' = "get_recv" /\ exit_status' = -1
        /\ printed' = << <<"Timeout occurred. Retrying...">> >>]_vars

\* two timeouts in a row after block 1 was acknowledged: the packet sent before
\* the last timeout was already a retransmitted request
GetTimeoutBehaviourWitness ==
    /\ operation = "get" /\ pc = "get_recv"
    /\ acked # <<>>
    /\ last_recv = <<>>
    /\ last_sent # <<>> /\ WireOpcode(last_sent[1].pkt) = OPCODE.RRQ
    /\ out # <<>> /\ WireOpcode(out[1].pkt) = OPCODE.RRQ


-----------------------------------------------------------------------------
\* the step just taken received an ACK datagram
GotAck == last_recv # <<>> /\ WireOpcode(last_recv[1].pkt) = OPCODE.ACK

\* the DATA datagram that carries the chunk after the one sent last
NextDataDgram ==
    Dgram(WireData(block_number + 1, Slice(disk, read_pos, read_pos + BLOCK_SIZE)),
          <<"host", DEFAULT_PORT>>)

\* C13 (Spec). PUT completion rule: a PUT step reaches COMPLETED exactly when it
\* receives an ACK whose block number equals that of the DATA packet sent last and
\* the chunk of that packet was shorter than 512 bytes; a matching ACK for a full
\* chunk makes the client send the next chunk; hence an upload of a file whose
\* size is a multiple of 512 (0 included) completes on a zero-length DATA block.
PutCompletionRule ==
    [][operation = "put" =>
        LET matching == pc = "put_recv" /\ GotAck' /\ GotBlock' = block_number
        IN  /\ Completed' <=> (matching /\ Len(file_block) < BLOCK_SIZE)
            /\ (matching /\ Len(file_block) = BLOCK_SIZE) =>
                  /\ pc' = "put_recv"
                  /\ out' = <<NextDataDgram>>
            /\ (Completed' /\ Len(disk) % BLOCK_SIZE = 0) =>
                  /\ Len(data_packet') = 4
                  /\ WireOpcode(data_packet') = OPCODE.DATA
                  /\ read_pos' = Len(disk)]_vars

\* a 512-byte file uploaded: DATA 1 full, DATA 2 empty, both acknowledged
PutCompletionRuleWitness ==
    /\ operation = "put" /\ Completed
    /\ Len(disk) = BLOCK_SIZE
    /\ block_number = 2 /\ Len(data_packet) = 4
    /\ GotAck /\ GotBlock = 2

-----------------------------------------------------------------------------
\* C14 (Spec). PUT mismatched ACK: a PUT step that receives an ACK whose block
\* number differs from that of the DATA packet just sent neither resends that
\* block nor fails; the one packet it sends is DATA numbered one higher, carrying
\* the next chunk read from the file.
PutMismatchedAck ==
    [][(operation = "put" /\ pc = "put_recv" /\ GotAck' /\ GotBlock' # block_number) =>
        /\ pc' = "put_recv" /\ exit_status' = -1 /\ exception' = "none"
        /\ printed' = <<>>
        /\ block_number' = block_number + 1
        /\ out' = <<NextDataDgram>>
        /\ data_packet' = NextDataDgram.pkt]_vars

\* ACK 0 arrives while DATA 1 of a 513-byte file is outstanding; DATA 2 (one byte)
\* follows
PutMismatchedAckWitness ==
    /\ operation = "put" /\ pc = "put_recv"
    /\ Len(disk) = BLOCK_SIZE + 1
    /\ GotAck /\ GotBlock = 0
    /\ block_number = 2
    /\ Len(out) = 1 /\ Len(out[1].pkt) = 5


-----------------------------------------------------------------------------
\* C15 (Spec). Peer address learning on PUT: once the server's first reply has
\* been received, every DATA packet the client sends (retransmissions included)
\* is addressed to the sender of that first reply, not to the address the Write
\* Request went to.
PeerAddressPut ==
    (operation = "put" /\ first_reply # <<>>) =>
        \A i \in 1..Len(out) :
            WireOpcode(out[i].pkt) = OPCODE.DATA => out[i].to = first_reply[1]


-----------------------------------------------------------------------------
\* C16 (SpecWire). Block-number wrap on GET: expected_block_number is a 16-bit
\* unsigned counter: the increment gives the next number modulo 65536, and the
\* GET loop accepts and acknowledges the expected block whatever its number in
\* 1..65535 and then expects the next number modulo 65536 (0 after 65535, so
\* that block 0 is accepted next).
GetBlockWrap ==
    [][/\ pc = "wire_next" => expected_block_number' = (expected_block_number + 1) % 65536
       /\ (pc = "wire_get" /\ expected_block_number \in 1..65535) =>
             /\ exception' = "none"
             /\ expected_block_number' = (expected_block_number + 1) % 65536
             /\ Len(out') = 1 /\ out'[1].pkt = WireAck(expected_block_number)]_vars

-----------------------------------------------------------------------------
\* C17 (SpecWire). Unsigned block numbers on the wire: for every block number in
\* 0..65535, building the ACK (GET) and building the DATA packet (PUT) succeeds
\* and the packet carries the number as an unsigned big-endian 16-bit field.
UnsignedBlockNumbers ==
    [][/\ (pc = "wire_ack" /\ block_number \in 0..65535) =>
             /\ exception' = "none"
             /\ Len(out') = 1 /\ out'[1].pkt = WireAck(block_number)
       /\ (pc = "wire_data" /\ block_number + 1 \in 0..65535) =>
             /\ exception' = "none"
             /\ data_packet' = WireData(block_number + 1, <<>>)
             /\ Len(out') = 1 /\ out'[1].pkt = data_packet']_vars


-----------------------------------------------------------------------------
\* C18 (Spec). GET completion depends only on an accepted block: a GET becomes
\* COMPLETED only in a step that accepts a DATA block (number equal to
\* expected_block_number) with a payload shorter than 512 bytes; a DATA packet
\* with an unexpected block number never ends the transfer, be it the first
\* packet of the session or a later one, whatever its payload length.
GetCompletionOnlyOnAccepted ==
    [][operation = "get" =>
        /\ (Completed' /\ ~Completed) =>
              /\ pc = "get_recv" /\ GotData'
              /\ GotBlock' = expected_block_number
              /\ Len(last_recv'[1].pkt) - 4 < BLOCK_SIZE
        /\ (pc = "get_recv" /\ GotData' /\ GotBlock' # expected_block_number) =>
              pc' = "get_recv"]_vars

-----------------------------------------------------------------------------
\* the full payloads of blocks 1..n, in order
RECURSIVE ConcatFull(_)
ConcatFull(n) == IF n = 0 THEN <<>> ELSE ConcatFull(n - 1) \o FullPayload(n)

\* C19 (Spec). GET file-content invariant: while the local file of a GET exists,
\* the accepted blocks are 1..expected_block_number-1 in order, once each, and the
\* file holds exactly the concatenation of their payloads in that order (full
\* blocks, then the short final block if the transfer completed); duplicates,
\* out-of-order blocks, timeouts and other opcodes add, reorder or repeat nothing.
GetFileContent ==
    (operation = "get" /\ pc # "start" /\ disk_exists) =>
        /\ accepted = [i \in 1..(expected_block_number - 1) |-> i]
        /\ disk = IF Completed
                  THEN ConcatFull(expected_block_number - 2)
                          \o SliceFrom(last_recv[1].pkt, 4)
                  ELSE ConcatFull(expected_block_number - 1)

\* blocks 1 and 2 are in the file and a duplicate of block 1 has just arrived
GetFileContentWitness ==
    /\ operation = "get" /\ pc = "get_recv"
    /\ accepted = <<1, 2>>
    /\ GotData /\ GotBlock = 1
    /\ Len(disk) = 2 * BLOCK_SIZE


-----------------------------------------------------------------------------
\* C20 (SpecGetFair). GET termination without loss: against a server that sends
\* block 1 in reply to the Read Request and block n+1 only after ACK n, with no
\* datagram lost and a final block shorter than 512 bytes, the GET eventually is
\* COMPLETED with the local file closed, client and server steps being weakly fair.
GetTerminates == <>(operation = "get" /\ Completed /\ file = "closed")

\* a three-block file has been fetched whole and the handle is closed
GetTerminatesWitness ==
    /\ operation = "get" /\ Completed /\ file = "closed"
    /\ Len(accepted) = 3
    /\ disk = srv_file /\ Len(disk) = 2 * BLOCK_SIZE + 1

====
